---- MODULE Spec2Model ----
(***************************************************************************)
(* The Astro language server (packages/language-server/src/server.ts) as a  *)
(* state machine: the connection handlers registered by                     *)
(* startLanguageServer, the document store, the two debounced diagnostics   *)
(* pipelines and the configuration cache.                                   *)
(*                                                                          *)
(* server.ts is translated handler by handler.  The collaborators it        *)
(* imports (DocumentManager, DiagnosticsManager, PluginHost, ConfigManager, *)
(* debounceThrottle) are modelled from their documented contracts.          *)
(***************************************************************************)
EXTENDS Integers, Sequences, FiniteSets, TLC

VARIABLES
    phase,                      \* "created" | "ready" | "failed" (onInitialize)
    hasConfigurationCapability, \* server.ts:42
    hostOptions,                \* pluginHost.initialize({...}) argument
    plugins,                    \* pluginHost's ordered provider registry
    docs,                       \* documentManager: uri -> [version, text]
    openedInClient,             \* documentManager.markAsOpenedInClient
    updateAllTimer,             \* debounceThrottle state of updateAllDiagnostics
    changeTimer,                \* debounceThrottle state of the documentChange listener
    diag,                       \* diagnosticsManager: per-document computation state
    published,                  \* version tag of the set last published per uri
    configCache,                \* configManager: uris with a cached configuration
    pendingReads,               \* configManager.getConfig calls not yet resolved
    globalConfig,               \* configManager: the global default configuration
    out,                        \* what the last step gave back: error, message sent
    request,                    \* feature request being dispatched
    call,                       \* the plugin host call made for it
    aggIn,                      \* provider outcomes handed to the aggregation
    inflight                    \* the dispatch the plugin host is carrying out

vars == <<phase, hasConfigurationCapability, hostOptions, plugins, docs,
          openedInClient, updateAllTimer, changeTimer, diag, published,
          configCache, pendingReads, globalConfig, out, request, call, aggIn,
          inflight>>

serverVars == <<phase, hasConfigurationCapability, hostOptions, plugins, docs,
                openedInClient, updateAllTimer, changeTimer, diag, published,
                configCache, pendingReads, globalConfig>>

----------------------------------------------------------------------------
(* Bounds of the model *)

MaxVersion == 2
TicksPerInterval == 2
MaxIssues == 2

(* Program constants *)

\* debounceThrottle(..., 1000): the interval of both pipelines, in ms
DiagnosticsIntervalMs == 1000

Uris == {"u1", "u2"}
Texts == {"a", "b"}
Messages == {"m1", "m2"}
Versions == 1..MaxVersion

Min(a, b) == IF a < b THEN a ELSE b
Max(a, b) == IF a > b THEN a ELSE b

----------------------------------------------------------------------------
(* Document store *)

NoDoc == [version |-> 0, text |-> ""]

IsOpen(d) == docs[d] # NoDoc

\* open(uri, text, version): registers a new live Document, DuplicateOpen if
\* one is already open
openDocument(store, d, v, t) ==
    IF store[d] # NoDoc
    THEN [error |-> "DuplicateOpen", store |-> store]
    ELSE [error |-> "none", store |-> [store EXCEPT ![d] = [version |-> v, text |-> t]]]

\* applyEdit accepting any version (the StaleVersion check left out)
updateDocument_NoVersionCheck(store, d, v, t) ==
    IF store[d] = NoDoc
    THEN [error |-> "UnknownDocument", store |-> store]
    ELSE [error |-> "none", store |-> [store EXCEPT ![d] = [version |-> v, text |-> t]]]

\* applyEdit(uri, changes, newVersion): UnknownDocument if not open,
\* StaleVersion if newVersion is not greater than the current version
updateDocument(store, d, v, t) ==
    IF store[d] = NoDoc
    THEN [error |-> "UnknownDocument", store |-> store]
    ELSE IF v <= store[d].version
    THEN [error |-> "StaleVersion", store |-> store]
    ELSE [error |-> "none", store |-> [store EXCEPT ![d] = [version |-> v, text |-> t]]]

\* close(uri): the Document is destroyed
closeDocument(store, d) ==
    IF store[d] = NoDoc
    THEN [error |-> "UnknownDocument", store |-> store]
    ELSE [error |-> "none", store |-> [store EXCEPT ![d] = NoDoc]]

----------------------------------------------------------------------------
(* debounceThrottle(fn, milliseconds) *)

\* the interval in clock ticks
Ticks(ms) == (ms * TicksPerInterval) \div DiagnosticsIntervalMs

NoArg == [uri |-> "", alive |-> FALSE]

Disarmed == [armed |-> FALSE, quiet |-> 0, waited |-> 0, arg |-> NoArg]

\* a call of the wrapper: (re)start the quiet period, keep the latest arguments
Trigger(t, ms, arg) ==
    IF t.armed
    THEN [t EXCEPT !.quiet = Ticks(ms), !.arg = arg]
    ELSE [armed |-> TRUE, quiet |-> Ticks(ms), waited |-> 0, arg |-> arg]

\* a plain debounce: only a quiet period lets the call through
Due_DebounceOnly(t, ms) == t.armed /\ t.quiet = 0

\* the wrapped function runs after a quiet period, or once a full interval has
\* passed since the first call it has not yet served
Due(t, ms) == t.armed /\ (t.quiet = 0 \/ t.waited >= Ticks(ms))

\* one clock tick
Elapse(t, ms) ==
    IF t.armed
    THEN [t EXCEPT !.quiet = Max(0, t.quiet - 1),
                   !.waited = Min(Ticks(ms) + 1, t.waited + 1)]
    ELSE t

----------------------------------------------------------------------------
(* Plugin host: the diagnostics aggregation *)

Providers == {"html", "css", "astro", "typescript"}

RECURSIVE SeqsUpTo(_, _)
SeqsUpTo(S, n) ==
    IF n = 0 THEN {<<>>}
    ELSE SeqsUpTo(S, n - 1) \cup [1..n -> S]

Threw == [throws |-> TRUE, issues |-> <<>>]
Returned(s) == [throws |-> FALSE, issues |-> s]

\* what one provider's getDiagnostics can do: throw, or return a list of issues
Outcomes == {Threw} \cup {Returned(s) : s \in SeqsUpTo(Messages, MaxIssues)}

Registered(ps) == {ps[i] : i \in 1..Len(ps)}

\* every issue carries the source tag of the provider that reported it
Tagged(p, s) == [i \in 1..Len(s) |-> [source |-> p, message |-> s[i]]]

RECURSIVE Dedupe(_)
Dedupe(s) ==
    IF s = <<>> THEN <<>>
    ELSE LET front == Dedupe(SubSeq(s, 1, Len(s) - 1))
             last == s[Len(s)]
         IN IF \E i \in 1..Len(front) : front[i] = last
            THEN front
            ELSE Append(front, last)

\* concatenate, in registration order, what the providers that did not throw
\* returned; a throwing provider contributes nothing
RECURSIVE Collect(_, _)
Collect(ps, outcomes) ==
    IF ps = <<>> THEN <<>>
    ELSE (IF outcomes[Head(ps)].throws
          THEN <<>>
          ELSE Tagged(Head(ps), outcomes[Head(ps)].issues))
         \o Collect(Tail(ps), outcomes)

\* pluginHost.getDiagnostics: the merged set and the ProviderFailure events
getDiagnostics(ps, outcomes) ==
    [diagnostics |-> Dedupe(Collect(ps, outcomes)),
     failures |-> {p \in Registered(ps) : outcomes[p].throws}]

\* the outcomes the diagnostics passes of the server draw from: no provider
\* reports anything, or the first one throws and the others report an issue
SampleOutcomes(ps) ==
    {[p \in Registered(ps) |-> Returned(<<>>)],
     [p \in Registered(ps) |-> IF p = ps[1] THEN Threw ELSE Returned(<<"m1">>)]}

----------------------------------------------------------------------------
(* Diagnostics manager *)

Idle == [computing |-> 0, followUp |-> FALSE]

NoMsg == [uri |-> "", version |-> 0, diagnostics |-> <<>>]

\* update starting a computation whether or not one is under way
update_Restart(dg, store, d) ==
    IF store[d] = NoDoc THEN dg
    ELSE [dg EXCEPT ![d].computing = store[d].version]

\* update(document): start a recompute tagged with the document's version; a
\* trigger arriving while one is computing schedules one follow-up
update(dg, store, d) ==
    IF store[d] = NoDoc THEN dg
    ELSE IF dg[d].computing # 0
    THEN [dg EXCEPT ![d].followUp = TRUE]
    ELSE [dg EXCEPT ![d].computing = store[d].version]

\* updateAll(): update every document the client has open
updateAll(dg, store, opened) ==
    [d \in Uris |-> IF d \in opened THEN update(dg, store, d)[d] ELSE dg[d]]

\* the result of a finished computation is published unless the document
\* disappeared or has been edited since the computation started
Publishes(store, d, v) == store[d] # NoDoc /\ v >= store[d].version

\* after a computation finishes: the follow-up, if one was asked for
AfterCompute(store, d, slot) ==
    IF slot.followUp /\ store[d] # NoDoc
    THEN [computing |-> store[d].version, followUp |-> FALSE]
    ELSE Idle

----------------------------------------------------------------------------
(* Configuration manager *)

DefaultLSConfig == "default"

\* the settings payload of a didChangeConfiguration notification: null, an
\* object without an astro section, or an object carrying one
Settings == {"null", "noAstro", "custom"}

\* change.settings.astro
AstroSection(settings) == IF settings = "custom" THEN "custom" ELSE "undefined"

\* JavaScript's  x || y  on a configuration value
OrElse(x, y) == IF x = "undefined" THEN y ELSE x

----------------------------------------------------------------------------
(* What a step gives back to the transport layer *)

Output(error, sent, updates, failures) ==
    [error |-> error,       \* the error the handler ended with, or "none"
     sent |-> sent,         \* the message handed to connection.sendDiagnostics
     updates |-> updates,   \* calls of diagnosticsManager.update(document)
     failures |-> failures] \* ProviderFailure events logged

Quiet == Output("none", NoMsg, 0, {})
Failed(error) == Output(error, NoMsg, 0, {})

NoRequest == [kind |-> "none", uri |-> "", token |-> "none", data |-> "none"]
NoCall == [method |-> "none", uri |-> "", token |-> "none"]
NoOutcomes == [p \in {} |-> Threw]

\* no dispatch under way
NoFlight == [uri |-> "", version |-> 0, snapshot |-> NoDoc, next |-> 0,
             seen |-> NoDoc, live |-> 0]

----------------------------------------------------------------------------
(* The state after startLanguageServer has registered its handlers *)

Init ==
    /\ phase = "created"
    /\ hasConfigurationCapability = FALSE
    /\ hostOptions = [filterIncompleteCompletions |-> FALSE, definitionLinkSupport |-> FALSE]
    /\ plugins = <<>>
    /\ docs = [d \in Uris |-> NoDoc]
    /\ openedInClient = {}
    /\ updateAllTimer = Disarmed
    /\ changeTimer = Disarmed
    /\ diag = [d \in Uris |-> Idle]
    /\ published = [d \in Uris |-> 0]
    /\ configCache = {}
    /\ pendingReads = {}
    /\ globalConfig = DefaultLSConfig
    /\ out = Quiet
    /\ request = NoRequest
    /\ call = NoCall
    /\ aggIn = NoOutcomes
    /\ inflight = NoFlight

featureVars == <<request, call, aggIn, inflight>>

----------------------------------------------------------------------------
(* connection.onInitialize (server.ts:44-152) *)

InitializeParams ==
    {[configuration |-> c, linkSupport |-> l, hasOptions |-> TRUE,
      dontFilter |-> f, environment |-> e] :
        c \in BOOLEAN, l \in BOOLEAN, f \in BOOLEAN, e \in {"browser", "node"}}
    \cup
    {[configuration |-> c, linkSupport |-> l, hasOptions |-> FALSE,
      dontFilter |-> FALSE, environment |-> "undefined"] :
        c \in BOOLEAN, l \in BOOLEAN}

\* the options ignoring what the client sent
initializeOptions_Fixed(p) ==
    [filterIncompleteCompletions |-> TRUE, definitionLinkSupport |-> FALSE]

\* the argument of pluginHost.initialize (server.ts:69-72)
initializeOptions(p) ==
    [filterIncompleteCompletions |-> ~p.dontFilter,
     definitionLinkSupport |-> p.linkSupport]

Initialize(p) ==
    /\ phase = "created"
    /\ hasConfigurationCapability' = p.configuration
    /\ hostOptions' = initializeOptions(p)
    \* params.initializationOptions.environment: a TypeError when the client
    \* sent no initializationOptions, after html and css were registered
    /\ IF ~p.hasOptions
       THEN /\ plugins' = <<"html", "css">>
            /\ phase' = "failed"
            /\ out' = Failed("TypeError")
       ELSE /\ plugins' = IF p.environment # "browser"
                          THEN <<"html", "css", "astro", "typescript">>
                          ELSE <<"html", "css">>
            /\ phase' = "ready"
            /\ out' = Quiet
    /\ UNCHANGED <<docs, openedInClient, updateAllTimer, changeTimer, diag,
                   published, configCache, pendingReads, globalConfig>>
    /\ UNCHANGED featureVars

----------------------------------------------------------------------------
(* connection.onDidChangeConfiguration (server.ts:156-166) *)

\* configManager.updateConfig(): the cache is invalidated wholesale
updateConfig(cache) == {}

\* configManager.updateGlobalConfig(value): value is the new global default
updateGlobalConfig(current, value) == value

\* the handler taking the pushed payload whatever the client declared
OnDidChangeConfiguration_AlwaysPush(capability, settings, opened, cache, reads, global) ==
    IF settings = "null"
    THEN [error |-> "TypeError", cache |-> cache, reads |-> reads, global |-> global]
    ELSE [error |-> "none", cache |-> cache, reads |-> reads,
          global |-> updateGlobalConfig(global, OrElse(AstroSection(settings), DefaultLSConfig))]

\* with the configuration capability: reset the cache and call getConfig for
\* every document opened by the client (the calls are not awaited); without
\* it: change.settings.astro || defaultLSConfig becomes the global
\* configuration, and reading .astro of a null settings value throws
OnDidChangeConfiguration(capability, settings, opened, cache, reads, global) ==
    IF capability
    THEN [error |-> "none", cache |-> updateConfig(cache),
          reads |-> reads \cup opened, global |-> global]
    ELSE IF settings = "null"
    THEN [error |-> "TypeError", cache |-> cache, reads |-> reads, global |-> global]
    ELSE [error |-> "none", cache |-> cache, reads |-> reads,
          global |-> updateGlobalConfig(global, OrElse(AstroSection(settings), DefaultLSConfig))]

DidChangeConfiguration(settings) ==
    /\ phase = "ready"
    /\ LET r == OnDidChangeConfiguration(hasConfigurationCapability, settings,
                                         openedInClient, configCache, pendingReads,
                                         globalConfig)
       IN /\ configCache' = r.cache
          /\ pendingReads' = r.reads
          /\ globalConfig' = r.global
          /\ out' = Failed(r.error)
    /\ UNCHANGED <<phase, hasConfigurationCapability, hostOptions, plugins, docs,
                   openedInClient, updateAllTimer, changeTimer, diag, published>>
    /\ UNCHANGED featureVars

\* a getConfig('astro', uri) call started by the handler resolves and caches
\* what it read
ConfigReadComplete(d) ==
    /\ d \in pendingReads
    /\ pendingReads' = pendingReads \ {d}
    /\ configCache' = configCache \cup {d}
    /\ out' = Quiet
    /\ UNCHANGED <<phase, hasConfigurationCapability, hostOptions, plugins, docs,
                   openedInClient, updateAllTimer, changeTimer, diag, published,
                   globalConfig>>
    /\ UNCHANGED featureVars

----------------------------------------------------------------------------
(* Listeners on the document manager's events (server.ts:269-277) *)

\* the listener calling diagnosticsManager.update at every change
OnDocumentChange_Undebounced(timer, dg, store, d) ==
    [timer |-> timer, diag |-> update(dg, store, d), updates |-> 1]

\* documentManager.on('documentChange', debounceThrottle(update, 1000)): an
\* edit only (re)arms the wrapper, with the edited document as its argument
OnDocumentChange(timer, dg, store, d) ==
    [timer |-> Trigger(timer, DiagnosticsIntervalMs, [uri |-> d, alive |-> TRUE]),
     diag |-> dg, updates |-> 0]

\* removeDiagnostics(document): publish an empty set, stop tracking
removeDiagnostics(dg, d) ==
    [sent |-> [uri |-> d, version |-> 0, diagnostics |-> <<>>],
     diag |-> [dg EXCEPT ![d] = Idle]]

\* configManager.removeDocument(uri)
removeDocument(cache, d) == cache \ {d}

\* the listener forgetting the diagnostics
OnDocumentClose_KeepDiagnostics(dg, cache, d) ==
    [sent |-> NoMsg, diag |-> dg, cache |-> removeDocument(cache, d)]

\* documentManager.on('documentClose', ...)
OnDocumentClose(dg, cache, d) ==
    [sent |-> removeDiagnostics(dg, d).sent,
     diag |-> removeDiagnostics(dg, d).diag,
     cache |-> removeDocument(cache, d)]

\* the version tags the client holds after a step that sent msg
Publish(pub, msg) ==
    IF msg = NoMsg THEN pub ELSE [pub EXCEPT ![msg.uri] = msg.version]

----------------------------------------------------------------------------
(* Document notifications (server.ts:169-178) *)

\* the handler without its markAsOpenedInClient call
DidOpenTextDocument_Unmarked(d, v, t) ==
    /\ phase = "ready"
    /\ LET r == openDocument(docs, d, v, t)
       IN /\ docs' = r.store
          /\ out' = Failed(r.error)
    /\ UNCHANGED <<phase, hasConfigurationCapability, hostOptions, plugins,
                   openedInClient, updateAllTimer, changeTimer, diag, published,
                   configCache, pendingReads, globalConfig>>
    /\ UNCHANGED featureVars

\* documentManager.openDocument(params.textDocument), then
\* documentManager.markAsOpenedInClient(params.textDocument.uri)
DidOpenTextDocument(d, v, t) ==
    /\ phase = "ready"
    /\ LET r == openDocument(docs, d, v, t)
       IN /\ docs' = r.store
          \* markAsOpenedInClient is not reached when openDocument throws
          /\ openedInClient' = IF r.error = "none"
                               THEN openedInClient \cup {d}
                               ELSE openedInClient
          /\ out' = Failed(r.error)
    /\ UNCHANGED <<phase, hasConfigurationCapability, hostOptions, plugins,
                   updateAllTimer, changeTimer, diag, published, configCache,
                   pendingReads, globalConfig>>
    /\ UNCHANGED featureVars

DidCloseTextDocument(d) ==
    /\ phase = "ready"
    /\ LET r == closeDocument(docs, d)
           h == OnDocumentClose(diag, configCache, d)
       IN IF r.error # "none"
          THEN /\ out' = Failed(r.error)
               /\ UNCHANGED <<docs, openedInClient, changeTimer, diag, published,
                              configCache>>
          ELSE /\ docs' = r.store
               /\ openedInClient' = openedInClient \ {d}
               \* the Document object a pending debounced call holds is dead
               /\ changeTimer' = IF changeTimer.arg.uri = d
                                 THEN [changeTimer EXCEPT !.arg.alive = FALSE]
                                 ELSE changeTimer
               /\ diag' = h.diag
               /\ configCache' = h.cache
               /\ published' = Publish(published, h.sent)
               /\ out' = Output("none", h.sent, 0, {})
    /\ UNCHANGED <<phase, hasConfigurationCapability, hostOptions, plugins,
                   updateAllTimer, pendingReads, globalConfig>>
    /\ UNCHANGED featureVars

DidChangeTextDocument(d, v, t) ==
    /\ phase = "ready"
    /\ LET r == updateDocument(docs, d, v, t)
           h == OnDocumentChange(changeTimer, diag, r.store, d)
       IN IF r.error # "none"
          THEN /\ out' = Failed(r.error)
               /\ UNCHANGED <<docs, changeTimer, diag>>
          ELSE /\ docs' = r.store
               /\ changeTimer' = h.timer
               /\ diag' = h.diag
               /\ out' = Output("none", NoMsg, h.updates, {})
    /\ UNCHANGED <<phase, hasConfigurationCapability, hostOptions, plugins,
                   openedInClient, updateAllTimer, published, configCache,
                   pendingReads, globalConfig>>
    /\ UNCHANGED featureVars

----------------------------------------------------------------------------
(* Triggers of updateAllDiagnostics (server.ts:186-198, 260-267) *)

\* updateAllDiagnostics = debounceThrottle(() => diagnosticsManager.updateAll(), 1000)
updateAllDiagnostics(timer) == Trigger(timer, DiagnosticsIntervalMs, NoArg)

\* connection.onDidChangeWatchedFiles: pluginHost.onWatchFileChanges(params)
\* touches provider-internal state only; then updateAllDiagnostics()
DidChangeWatchedFiles ==
    /\ phase = "ready"
    /\ updateAllTimer' = updateAllDiagnostics(updateAllTimer)
    /\ out' = Quiet
    /\ UNCHANGED <<phase, hasConfigurationCapability, hostOptions, plugins, docs,
                   openedInClient, changeTimer, diag, published, configCache,
                   pendingReads, globalConfig>>
    /\ UNCHANGED featureVars

\* connection.onDidSaveTextDocument(updateAllDiagnostics)
DidSaveTextDocument ==
    /\ phase = "ready"
    /\ updateAllTimer' = updateAllDiagnostics(updateAllTimer)
    /\ out' = Quiet
    /\ UNCHANGED <<phase, hasConfigurationCapability, hostOptions, plugins, docs,
                   openedInClient, changeTimer, diag, published, configCache,
                   pendingReads, globalConfig>>
    /\ UNCHANGED featureVars

\* '$/onDidChangeNonAstroFile': pluginHost.updateNonAstroFile(path, changes),
\* when the uri is a file path, touches provider-internal state only; then
\* updateAllDiagnostics()
DidChangeNonAstroFile ==
    /\ phase = "ready"
    /\ updateAllTimer' = updateAllDiagnostics(updateAllTimer)
    /\ out' = Quiet
    /\ UNCHANGED <<phase, hasConfigurationCapability, hostOptions, plugins, docs,
                   openedInClient, changeTimer, diag, published, configCache,
                   pendingReads, globalConfig>>
    /\ UNCHANGED featureVars

----------------------------------------------------------------------------
(* Time and the debounced calls *)

Tick ==
    /\ updateAllTimer.armed \/ changeTimer.armed
    /\ ~Due(updateAllTimer, DiagnosticsIntervalMs)
    /\ ~Due(changeTimer, DiagnosticsIntervalMs)
    /\ updateAllTimer' = Elapse(updateAllTimer, DiagnosticsIntervalMs)
    /\ changeTimer' = Elapse(changeTimer, DiagnosticsIntervalMs)
    /\ out' = Quiet
    /\ UNCHANGED <<phase, hasConfigurationCapability, hostOptions, plugins, docs,
                   openedInClient, diag, published, configCache, pendingReads,
                   globalConfig>>
    /\ UNCHANGED featureVars

\* the timer of updateAllDiagnostics fires: diagnosticsManager.updateAll()
FireUpdateAll ==
    /\ Due(updateAllTimer, DiagnosticsIntervalMs)
    /\ updateAllTimer' = Disarmed
    /\ diag' = updateAll(diag, docs, openedInClient)
    /\ out' = Quiet
    /\ UNCHANGED <<phase, hasConfigurationCapability, hostOptions, plugins, docs,
                   openedInClient, changeTimer, published, configCache,
                   pendingReads, globalConfig>>
    /\ UNCHANGED featureVars

\* the timer of the documentChange listener fires:
\* diagnosticsManager.update(document) with the last edited document
FireDocumentChange ==
    /\ Due(changeTimer, DiagnosticsIntervalMs)
    /\ changeTimer' = Disarmed
    /\ diag' = IF changeTimer.arg.alive
               THEN update(diag, docs, changeTimer.arg.uri)
               ELSE diag
    /\ out' = Output("none", NoMsg, 1, {})
    /\ UNCHANGED <<phase, hasConfigurationCapability, hostOptions, plugins, docs,
                   openedInClient, updateAllTimer, published, configCache,
                   pendingReads, globalConfig>>
    /\ UNCHANGED featureVars

\* pluginHost.getDiagnostics handed over without its receiver: every call
\* throws before a provider is reached
diagnosticsSource_Unbound(ps, outcomes) ==
    [failed |-> TRUE, diagnostics |-> <<>>, failures |-> {}]

\* new DiagnosticsManager(connection.sendDiagnostics, documentManager,
\* pluginHost.getDiagnostics.bind(pluginHost)): what the manager calls to
\* compute a document's diagnostics
diagnosticsSource(ps, outcomes) ==
    [failed |-> FALSE,
     diagnostics |-> getDiagnostics(ps, outcomes).diagnostics,
     failures |-> getDiagnostics(ps, outcomes).failures]

\* a diagnostics computation finishes with the providers' outcomes; a
\* dispatch that failed as a whole publishes nothing
DiagnosticsComplete(d, outcomes) ==
    /\ diag[d].computing # 0
    /\ LET v == diag[d].computing
           r == diagnosticsSource(plugins, outcomes)
           msg == IF ~r.failed /\ Publishes(docs, d, v)
                  THEN [uri |-> d, version |-> v, diagnostics |-> r.diagnostics]
                  ELSE NoMsg
       IN /\ published' = Publish(published, msg)
          /\ out' = Output(IF r.failed THEN "DispatchFailure" ELSE "none",
                           msg, 0, r.failures)
    /\ diag' = [diag EXCEPT ![d] = AfterCompute(docs, d, diag[d])]
    /\ UNCHANGED <<phase, hasConfigurationCapability, hostOptions, plugins, docs,
                   openedInClient, updateAllTimer, changeTimer, configCache,
                   pendingReads, globalConfig>>
    /\ UNCHANGED featureVars

----------------------------------------------------------------------------
(* Feature requests (server.ts:201-258, 281-283) *)

Tokens == {"t1", "t2"}

\* the plugin host method each handler calls, and whether the handler hands
\* it the cancellation token the connection gave it
HandlerOf(kind) ==
    CASE kind = "hover" -> [method |-> "doHover", passesToken |-> FALSE]
      [] kind = "definition" -> [method |-> "getDefinitions", passesToken |-> FALSE]
      [] kind = "foldingRanges" -> [method |-> "getFoldingRanges", passesToken |-> FALSE]
      [] kind = "codeAction" -> [method |-> "getCodeActions", passesToken |-> TRUE]
      [] kind = "completion" -> [method |-> "getCompletions", passesToken |-> FALSE]
      [] kind = "completionResolve" -> [method |-> "resolveCompletion", passesToken |-> FALSE]
      [] kind = "documentSymbol" -> [method |-> "getDocumentSymbols", passesToken |-> TRUE]
      [] kind = "semanticTokensFull" -> [method |-> "getSemanticTokens", passesToken |-> TRUE]
      [] kind = "semanticTokensRange" -> [method |-> "getSemanticTokens", passesToken |-> TRUE]
      [] kind = "linkedEditingRange" -> [method |-> "getLinkedEditingRanges", passesToken |-> FALSE]
      [] kind = "formatting" -> [method |-> "formatDocument", passesToken |-> FALSE]
      [] kind = "documentColor" -> [method |-> "getDocumentColors", passesToken |-> FALSE]
      [] kind = "colorPresentation" -> [method |-> "getColorPresentations", passesToken |-> FALSE]
      [] kind = "inlayHint" -> [method |-> "getInlayHints", passesToken |-> TRUE]
      [] kind = "tagComplete" -> [method |-> "doTagComplete", passesToken |-> FALSE]
      [] kind = "signatureHelp" -> [method |-> "getSignatureHelp", passesToken |-> TRUE]
      [] kind = "rename" -> [method |-> "rename", passesToken |-> FALSE]
      [] kind = "getEditsForFileRename" -> [method |-> "updateImports", passesToken |-> FALSE]

\* every handler calling the plugin host with the uri of the request
Dispatch_ByRequestUri(req) ==
    [method |-> HandlerOf(req.kind).method, uri |-> req.uri,
     token |-> IF HandlerOf(req.kind).passesToken THEN req.token ELSE "none"]

\* the call a handler makes for a request: onCompletionResolve returns the
\* item as it is when it carries no data, and routes by the data otherwise
Dispatch(req) ==
    IF req.kind = "completionResolve"
    THEN IF req.data = "none"
         THEN NoCall
         ELSE [method |-> HandlerOf(req.kind).method, uri |-> req.data, token |-> "none"]
    ELSE [method |-> HandlerOf(req.kind).method, uri |-> req.uri,
          token |-> IF HandlerOf(req.kind).passesToken THEN req.token ELSE "none"]

\* snapshot(uri): an immutable view (text + version) of the document
snapshot(store, d) == [version |-> store[d].version, text |-> store[d].text]

\* the plugin host starts a dispatch: it takes the snapshot of the document
\* the call names and will invoke the providers in registration order; a call
\* naming no open document starts nothing
BeginDispatch(store, c) ==
    IF c.method = "none" \/ c.uri \notin Uris THEN NoFlight
    ELSE IF store[c.uri] = NoDoc THEN NoFlight
    ELSE [uri |-> c.uri, version |-> store[c.uri].version,
          snapshot |-> snapshot(store, c.uri), next |-> 1, seen |-> NoDoc,
          live |-> 0]

\* providers reading the document through the store's live reference
ProviderInput_LiveRead(store, fl) == store[fl.uri]

\* what a provider invoked for the dispatch is handed as the document
ProviderInput(store, fl) == fl.snapshot

\* the handler runs to its first suspension point: the plugin host call is
\* made and the dispatch begun (the model follows the latest dispatch)
HandleRequest(kind, d, tok, data) ==
    /\ phase = "ready"
    /\ request' = [kind |-> kind, uri |-> d, token |-> tok, data |-> data]
    /\ call' = Dispatch(request')
    /\ inflight' = BeginDispatch(docs, call')
    /\ out' = Quiet
    /\ UNCHANGED serverVars
    /\ UNCHANGED aggIn

OnHover(d, tok) == HandleRequest("hover", d, tok, "none")
OnDefinition(d, tok) == HandleRequest("definition", d, tok, "none")
OnFoldingRanges(d, tok) == HandleRequest("foldingRanges", d, tok, "none")
OnCodeAction(d, tok) == HandleRequest("codeAction", d, tok, "none")
OnCompletion(d, tok) == HandleRequest("completion", d, tok, "none")
OnCompletionResolve(data, tok) == HandleRequest("completionResolve", "", tok, data)
OnDocumentSymbol(d, tok) == HandleRequest("documentSymbol", d, tok, "none")
OnSemanticTokensFull(d, tok) == HandleRequest("semanticTokensFull", d, tok, "none")
OnSemanticTokensRange(d, tok) == HandleRequest("semanticTokensRange", d, tok, "none")
OnLinkedEditingRange(d, tok) == HandleRequest("linkedEditingRange", d, tok, "none")
OnDocumentFormatting(d, tok) == HandleRequest("formatting", d, tok, "none")
OnDocumentColor(d, tok) == HandleRequest("documentColor", d, tok, "none")
OnColorPresentation(d, tok) == HandleRequest("colorPresentation", d, tok, "none")
OnInlayHint(d, tok) == HandleRequest("inlayHint", d, tok, "none")
OnTagClose(d, tok) == HandleRequest("tagComplete", d, tok, "none")
OnSignatureHelp(d, tok) == HandleRequest("signatureHelp", d, tok, "none")
OnRenameRequest(d, tok) == HandleRequest("rename", d, tok, "none")
OnGetEditsForFileRename(d, tok) == HandleRequest("getEditsForFileRename", d, tok, "none")

\* the dispatch resumes: the next provider is invoked
ProviderInvocation ==
    /\ inflight.next \in 1..Len(plugins)
    /\ inflight' = [inflight EXCEPT
                        !.seen = ProviderInput(docs, inflight),
                        !.live = docs[inflight.uri].version,
                        !.next = IF inflight.next = Len(plugins)
                                 THEN 0 ELSE inflight.next + 1]
    /\ out' = Quiet
    /\ UNCHANGED serverVars
    /\ UNCHANGED <<request, call, aggIn>>

FeatureRequest ==
    \/ \E d \in Uris, tok \in Tokens : OnHover(d, tok)
    \/ \E d \in Uris, tok \in Tokens : OnDefinition(d, tok)
    \/ \E d \in Uris, tok \in Tokens : OnFoldingRanges(d, tok)
    \/ \E d \in Uris, tok \in Tokens : OnCodeAction(d, tok)
    \/ \E d \in Uris, tok \in Tokens : OnCompletion(d, tok)
    \/ \E data \in Uris \cup {"none"}, tok \in Tokens : OnCompletionResolve(data, tok)
    \/ \E d \in Uris, tok \in Tokens : OnDocumentSymbol(d, tok)
    \/ \E d \in Uris, tok \in Tokens : OnSemanticTokensFull(d, tok)
    \/ \E d \in Uris, tok \in Tokens : OnSemanticTokensRange(d, tok)
    \/ \E d \in Uris, tok \in Tokens : OnLinkedEditingRange(d, tok)
    \/ \E d \in Uris, tok \in Tokens : OnDocumentFormatting(d, tok)
    \/ \E d \in Uris, tok \in Tokens : OnDocumentColor(d, tok)
    \/ \E d \in Uris, tok \in Tokens : OnColorPresentation(d, tok)
    \/ \E d \in Uris, tok \in Tokens : OnInlayHint(d, tok)
    \/ \E d \in Uris, tok \in Tokens : OnTagClose(d, tok)
    \/ \E d \in Uris, tok \in Tokens : OnSignatureHelp(d, tok)
    \/ \E d \in Uris, tok \in Tokens : OnRenameRequest(d, tok)
    \/ \E d \in Uris, tok \in Tokens : OnGetEditsForFileRename(d, tok)

----------------------------------------------------------------------------
(* The server with every handler and every input *)

Next ==
    \/ \E p \in InitializeParams : Initialize(p)
    \/ \E s \in Settings : DidChangeConfiguration(s)
    \/ \E d \in Uris : ConfigReadComplete(d)
    \/ \E d \in Uris, v \in Versions, t \in Texts : DidOpenTextDocument(d, v, t)
    \/ \E d \in Uris : DidCloseTextDocument(d)
    \/ \E d \in Uris, v \in Versions, t \in Texts : DidChangeTextDocument(d, v, t)
    \/ DidChangeWatchedFiles
    \/ DidSaveTextDocument
    \/ DidChangeNonAstroFile
    \/ Tick
    \/ FireUpdateAll
    \/ FireDocumentChange
    \/ \E d \in Uris : \E o \in SampleOutcomes(plugins) : DiagnosticsComplete(d, o)
    \/ FeatureRequest
    \/ ProviderInvocation

Spec == Init /\ [][Next]_vars

----------------------------------------------------------------------------
(* The diagnostics pipelines, driven by a client that keeps to the protocol *)

\* a desktop client, a browser client, and one sending no initializationOptions
Clients ==
    {p \in InitializeParams :
        \/ ~p.hasOptions /\ p.configuration /\ p.linkSupport
        \/ p.hasOptions /\ p.environment = "node" /\ p.configuration
           /\ p.linkSupport /\ ~p.dontFilter
        \/ p.hasOptions /\ p.environment = "browser" /\ ~p.configuration
           /\ ~p.linkSupport /\ p.dontFilter}

\* the clients of the desktop editor; the registry of a browser client is
\* covered by AggSpec
DesktopClients == {p \in Clients : p.environment # "browser"}

NextDiagnostics ==
    \/ \E p \in DesktopClients : Initialize(p)
    \/ \E d \in Uris : ~IsOpen(d) /\ DidOpenTextDocument(d, 1, "a")
    \/ \E d \in Uris : IsOpen(d) /\ DidCloseTextDocument(d)
    \/ \E d \in Uris : /\ IsOpen(d)
                       /\ docs[d].version < MaxVersion
                       /\ DidChangeTextDocument(d, docs[d].version + 1, "a")
    \/ DidChangeWatchedFiles
    \/ DidSaveTextDocument
    \/ DidChangeNonAstroFile
    \/ Tick
    \/ FireUpdateAll
    \/ FireDocumentChange
    \/ \E d \in Uris : \E o \in SampleOutcomes(plugins) : DiagnosticsComplete(d, o)

DiagSpec == Init /\ [][NextDiagnostics]_vars

----------------------------------------------------------------------------
(* The document store, driven by any client: every open, change and close     *)
(* notification, in and out of order                                          *)

NextDocuments ==
    \/ \E p \in InitializeParams : Initialize(p)
    \/ \E d \in Uris, v \in Versions, t \in Texts : DidOpenTextDocument(d, v, t)
    \/ \E d \in Uris : DidCloseTextDocument(d)
    \/ \E d \in Uris, v \in Versions, t \in Texts : DidChangeTextDocument(d, v, t)

DocSpec == Init /\ [][NextDocuments]_vars

----------------------------------------------------------------------------
(* Configuration changes and the triggers of updateAll()                      *)

NextConfiguration ==
    \/ \E p \in Clients : Initialize(p)
    \/ \E d \in Uris : ~IsOpen(d) /\ DidOpenTextDocument(d, 1, "a")
    \/ \E d \in Uris : IsOpen(d) /\ DidCloseTextDocument(d)
    \/ \E s \in Settings : DidChangeConfiguration(s)
    \/ \E d \in Uris : ConfigReadComplete(d)
    \/ DidChangeWatchedFiles
    \/ DidSaveTextDocument
    \/ DidChangeNonAstroFile
    \/ Tick
    \/ FireUpdateAll
    \/ \E d \in Uris : \E o \in SampleOutcomes(plugins) : DiagnosticsComplete(d, o)

ConfigSpec == Init /\ [][NextConfiguration]_vars

----------------------------------------------------------------------------
(* Feature requests on their own: the dispatch depends on the request only    *)

NextRequests ==
    \/ \E p \in Clients : Initialize(p)
    \/ FeatureRequest

RequestSpec == Init /\ [][NextRequests]_vars

----------------------------------------------------------------------------
(* Requests in flight while the client edits: the text of a document is a     *)
(* function of its version, so that what a provider was handed tells which    *)
(* version it read                                                            *)

TextAt(v) == IF v % 2 = 1 THEN "a" ELSE "b"

NextSnapshots ==
    \/ \E p \in Clients : Initialize(p)
    \/ \E d \in Uris : ~IsOpen(d) /\ DidOpenTextDocument(d, 1, TextAt(1))
    \/ \E d \in Uris : IsOpen(d) /\ DidCloseTextDocument(d)
    \/ \E d \in Uris : /\ IsOpen(d)
                       /\ docs[d].version < MaxVersion
                       /\ DidChangeTextDocument(d, docs[d].version + 1,
                                                TextAt(docs[d].version + 1))
    \/ \E d \in Uris : OnHover(d, "t1")
    \/ \E d \in Uris : OnCompletion(d, "t1")
    \/ ProviderInvocation

SnapshotSpec == Init /\ [][NextSnapshots]_vars

----------------------------------------------------------------------------
(* Every handler of the server, driven by a client that works on one         *)
(* document: it edits and reconfigures first, and sends its feature requests  *)
(* once the server has settled                                                *)

Editing == request = NoRequest

Settled ==
    /\ ~updateAllTimer.armed
    /\ ~changeTimer.armed
    /\ \A d \in Uris : diag[d] = Idle
    /\ pendingReads = {}

NextHandlers ==
    \/ \E p \in InitializeParams : Initialize(p)
    \/ \E s \in Settings : Editing /\ DidChangeConfiguration(s)
    \/ ConfigReadComplete("u1")
    \/ Editing /\ ~IsOpen("u1") /\ DidOpenTextDocument("u1", 1, "a")
    \/ Editing /\ DidCloseTextDocument("u1")
    \/ /\ Editing
       /\ IsOpen("u1")
       /\ docs["u1"].version < MaxVersion
       /\ DidChangeTextDocument("u1", docs["u1"].version + 1, "a")
    \/ Editing /\ DidChangeWatchedFiles
    \/ Editing /\ DidSaveTextDocument
    \/ Editing /\ DidChangeNonAstroFile
    \/ Tick
    \/ FireUpdateAll
    \/ FireDocumentChange
    \/ \E o \in SampleOutcomes(plugins) : DiagnosticsComplete("u1", o)
    \/ Settled /\ OnHover("u1", "t1")
    \/ Settled /\ OnDefinition("u1", "t1")
    \/ Settled /\ OnFoldingRanges("u1", "t1")
    \/ Settled /\ OnCodeAction("u1", "t1")
    \/ Settled /\ OnCompletion("u1", "t1")
    \/ Settled /\ OnCompletionResolve("u1", "t1")
    \/ Settled /\ OnDocumentSymbol("u1", "t1")
    \/ Settled /\ OnSemanticTokensFull("u1", "t1")
    \/ Settled /\ OnSemanticTokensRange("u1", "t1")
    \/ Settled /\ OnLinkedEditingRange("u1", "t1")
    \/ Settled /\ OnDocumentFormatting("u1", "t1")
    \/ Settled /\ OnDocumentColor("u1", "t1")
    \/ Settled /\ OnColorPresentation("u1", "t1")
    \/ Settled /\ OnInlayHint("u1", "t1")
    \/ Settled /\ OnTagClose("u1", "t1")
    \/ Settled /\ OnSignatureHelp("u1", "t1")
    \/ Settled /\ OnRenameRequest("u1", "t1")
    \/ Settled /\ OnGetEditsForFileRename("u1", "t1")
    \/ ProviderInvocation

HandlerSpec == Init /\ [][NextHandlers]_vars

----------------------------------------------------------------------------
(* One diagnostics pass over an open document, for every registry the server  *)
(* can hold and every combination of provider outcomes                        *)

InitAggregation ==
    /\ phase = "ready"
    /\ hasConfigurationCapability = FALSE
    /\ hostOptions = [filterIncompleteCompletions |-> TRUE, definitionLinkSupport |-> FALSE]
    /\ plugins \in {<<"html", "css">>, <<"html", "css", "astro", "typescript">>}
    /\ docs = [d \in Uris |-> IF d = "u1" THEN [version |-> 1, text |-> "a"] ELSE NoDoc]
    /\ openedInClient = {"u1"}
    /\ updateAllTimer = Disarmed
    /\ changeTimer = Disarmed
    /\ diag = [d \in Uris |-> IF d = "u1" THEN [computing |-> 1, followUp |-> FALSE] ELSE Idle]
    /\ published = [d \in Uris |-> 0]
    /\ configCache = {}
    /\ pendingReads = {}
    /\ globalConfig = DefaultLSConfig
    /\ out = Quiet
    /\ request = NoRequest
    /\ call = NoCall
    /\ aggIn \in [Registered(plugins) -> Outcomes]
    /\ inflight = NoFlight

NextAggregation == DiagnosticsComplete("u1", aggIn)

AggSpec == InitAggregation /\ [][NextAggregation]_vars

----------------------------------------------------------------------------
(* Claims about the diagnostics pipelines, checked under DiagSpec *)

ClearedMsg(d) == [uri |-> d, version |-> 0, diagnostics |-> <<>>]

\* a step in which the timer of updateAllDiagnostics fired
UpdateAllCycle == updateAllTimer.armed /\ ~updateAllTimer'.armed

\* C1: the step that closes document d publishes an empty diagnostic set for
\* d's uri, and an updateAll() cycle starts or schedules no recompute for a
\* document that is closed.
C1_CloseClearsAndUntracks ==
    [][\A d \in Uris :
          /\ (docs[d] # NoDoc /\ docs'[d] = NoDoc) => out'.sent = ClearedMsg(d)
          /\ (UpdateAllCycle /\ docs[d] = NoDoc) => (diag'[d] = diag[d] /\ diag[d] = Idle)
      ]_vars

\* d was just closed and cleared while an updateAll is pending and the other
\* document is still open
C1_Witness ==
    \E d \in Uris, e \in Uris :
        /\ d # e
        /\ docs[d] = NoDoc
        /\ out.sent = ClearedMsg(d)
        /\ docs[e] # NoDoc
        /\ updateAllTimer.armed

\* C2: a computed diagnostic set published for a uri never carries a version
\* older than the set last published for it: results are not reordered.
C2_NoOlderResultOverwrites ==
    [][\A d \in Uris :
          (out'.sent.uri = d /\ out'.sent.version > 0)
              => out'.sent.version >= published[d]
      ]_vars

\* a computation finished (a provider failure was logged) and nothing was
\* published, because the document had been edited since it started; the
\* recompute for the newer version is under way
C2_Witness ==
    /\ out.failures # {}
    /\ out.sent = NoMsg
    /\ \E d \in Uris : docs[d].version > 1 /\ diag[d].computing = docs[d].version

\* C3: diagnosticsManager.update is called by the documentChange pipeline only
\* when the debounce timer fires, which ends the window: once per window,
\* however many edits the window absorbed.
C3_OneUpdatePerWindow ==
    [][out'.updates # 0 =>
          /\ out'.updates = 1
          /\ changeTimer.armed
          /\ ~changeTimer'.armed
      ]_vars

\* a second edit arrived inside a window that is still open, and update has
\* not been called
C3_Witness ==
    /\ changeTimer.armed
    /\ changeTimer.waited > 0
    /\ changeTimer.quiet + changeTimer.waited > Ticks(DiagnosticsIntervalMs)
    /\ out.updates = 0
    /\ \E d \in Uris : docs[d].version > 1

\* C4: an edit never waits longer than one interval for its recompute, however
\* many later edits re-arm the timer.
C4_RecomputeWithinInterval ==
    /\ changeTimer.armed => changeTimer.waited <= Ticks(DiagnosticsIntervalMs)
    /\ updateAllTimer.armed => updateAllTimer.waited <= Ticks(DiagnosticsIntervalMs)

\* edits kept re-arming the timer for a whole interval: the recompute is due
\* although the quiet period has not elapsed
C4_Witness ==
    /\ changeTimer.armed
    /\ changeTimer.waited = Ticks(DiagnosticsIntervalMs)
    /\ changeTimer.quiet > 0

----------------------------------------------------------------------------
(* Claims about the triggers of updateAll(), checked under ConfigSpec *)

\* C6: each trigger named for updateAll() - a configuration change, a
\* file-system change batch, a document save - leaves an updateAll() recompute
\* scheduled when its handler is done (and a scheduled recompute runs within
\* one interval).
C6_EveryTriggerSchedulesUpdateAll ==
    [][(\/ \E s \in Settings : DidChangeConfiguration(s) /\ out'.error = "none"
        \/ DidChangeWatchedFiles
        \/ DidChangeNonAstroFile
        \/ DidSaveTextDocument)
          => updateAllTimer'.armed
      ]_vars

----------------------------------------------------------------------------
(* Claims about the document store, checked under DocSpec *)

\* C8: a change notification whose version is not greater than the stored one
\* fails with StaleVersion and leaves text and version as they were; the
\* stored version of an open document never decreases.
C8_StaleEditRejected ==
    [][/\ \A d \in Uris, v \in Versions, t \in Texts :
            (DidChangeTextDocument(d, v, t) /\ docs[d] # NoDoc /\ v <= docs[d].version)
                => (out'.error = "StaleVersion" /\ docs' = docs)
       /\ \A d \in Uris :
            (docs[d] # NoDoc /\ docs'[d] # NoDoc)
                => docs'[d].version >= docs[d].version
      ]_vars

\* a stale edit of an already edited document was just rejected
C8_Witness ==
    /\ out.error = "StaleVersion"
    /\ \E d \in Uris : docs[d].version > 1 /\ docs[d].text = "b"

----------------------------------------------------------------------------
(* Claims about configuration changes, checked under ConfigSpec *)

\* C9: with the configuration capability a change signal resets the cache and
\* starts a re-read for every document opened by the client, and the pushed
\* payload is not used; without it the pushed astro section becomes the global
\* configuration and no re-read is started.  The effects of the two branches
\* never mix.
C9_ConfigurationBranches ==
    [][\A s \in Settings :
          DidChangeConfiguration(s) =>
              IF hasConfigurationCapability
              THEN /\ configCache' = {}
                   /\ pendingReads' = pendingReads \cup openedInClient
                   /\ globalConfig' = globalConfig
              ELSE /\ configCache' = configCache
                   /\ pendingReads' = pendingReads
                   /\ AstroSection(s) # "undefined" => globalConfig' = AstroSection(s)
      ]_vars

\* pull mode: both documents are open, the cache has just been reset and a
\* re-read is under way for each of them
C9_Witness ==
    /\ hasConfigurationCapability
    /\ openedInClient = Uris
    /\ pendingReads = Uris
    /\ configCache = {}
    /\ globalConfig = DefaultLSConfig

\* C10: in push mode a configuration change whose payload carries no usable
\* configuration (no settings, or settings without an astro section) does not
\* fail, and sets the global configuration to the default.
C10_PushWithoutPayloadFallsBack ==
    [][\A s \in {"null", "noAstro"} :
          (DidChangeConfiguration(s) /\ ~hasConfigurationCapability)
              => (out'.error = "none" /\ globalConfig' = DefaultLSConfig)
      ]_vars

----------------------------------------------------------------------------
(* Claims about feature requests, checked under RequestSpec *)

ClaimedKinds ==
    {"hover", "definition", "foldingRanges", "codeAction", "completion",
     "completionResolve", "documentSymbol", "semanticTokensFull",
     "semanticTokensRange", "linkedEditingRange", "formatting", "documentColor",
     "colorPresentation", "inlayHint", "tagComplete", "signatureHelp", "rename"}

\* C5: for every feature request kind, the call into the plugin host carries
\* the cancellation token of the request.
C5_TokenReachesPluginHost ==
    (request.kind \in ClaimedKinds /\ call # NoCall) => call.token = request.token

----------------------------------------------------------------------------
(* Claims about the aggregation, checked under AggSpec *)

Rank(ps, p) == CHOOSE i \in 1..Len(ps) : ps[i] = p

IssuesOf(p) == {[source |-> p, message |-> aggIn[p].issues[i]] : i \in 1..Len(aggIn[p].issues)}

\* C7: when some providers return issues and others throw, the set published
\* holds exactly the issues of the providers that did not throw, each once and
\* in registration order; a ProviderFailure is logged for each provider that
\* threw; the publish happens.
C7_PartialFailureStillPublishes ==
    diag["u1"] = Idle =>
        LET ds == out.sent.diagnostics
        IN /\ out.sent.uri = "u1"
           /\ {ds[i] : i \in 1..Len(ds)} =
                  UNION {IssuesOf(p) : p \in {q \in Registered(plugins) : ~aggIn[q].throws}}
           /\ \A i \in 1..Len(ds), j \in 1..Len(ds) :
                  i < j => (ds[i] # ds[j] /\ Rank(plugins, ds[i].source) <= Rank(plugins, ds[j].source))
           /\ out.failures = {p \in Registered(plugins) : aggIn[p].throws}

\* html returned two issues, css threw, astro returned one: three issues were
\* published and one failure logged
C7_Witness ==
    /\ diag["u1"] = Idle
    /\ Len(plugins) = 4
    /\ Len(aggIn["html"].issues) = 2
    /\ aggIn["css"].throws
    /\ Len(aggIn["astro"].issues) = 1
    /\ ~aggIn["typescript"].throws /\ aggIn["typescript"].issues = <<>>
    /\ Len(out.sent.diagnostics) = 3
    /\ out.failures = {"css"}

----------------------------------------------------------------------------
(* Claims about requests in flight, checked under SnapshotSpec *)

\* C11: every provider invoked for a request dispatched at version V is handed
\* the text of version V, whatever edits were applied since the dispatch.
C11_ProvidersSeeDispatchVersion ==
    inflight.seen # NoDoc =>
        /\ inflight.seen.version = inflight.version
        /\ inflight.seen.text = TextAt(inflight.version)

\* a provider was invoked after an edit had moved the document past the
\* version the request was dispatched at
C11_Witness ==
    /\ inflight.seen # NoDoc
    /\ inflight.next > 1
    /\ inflight.live > inflight.version

----------------------------------------------------------------------------
(* Claims about the open documents, checked under DocSpec *)

\* C12: the store holds one live Document per open uri: an open notification
\* for a uri that is already open is rejected and leaves the live Document as
\* it is; after an open notification is handled the uri has a live Document
\* and is marked opened-in-client, and every live Document is marked so.
C12_OneLiveDocumentMarkedOpened ==
    [][/\ \A d \in Uris, v \in Versions, t \in Texts :
            DidOpenTextDocument(d, v, t) =>
                /\ docs'[d] # NoDoc
                /\ d \in openedInClient'
                /\ docs[d] # NoDoc => (docs' = docs /\ out'.error = "DuplicateOpen")
       /\ \A d \in Uris : docs'[d] # NoDoc => d \in openedInClient'
      ]_vars

\* both documents are open and edited, and a second open of one of them has
\* just been rejected
C12_Witness ==
    /\ out.error = "DuplicateOpen"
    /\ openedInClient = Uris
    /\ \A d \in Uris : docs[d].version > 1

----------------------------------------------------------------------------
(* Claims about the state fixed at initialization *)

\* C13: once the initialize handler has run the registry holds html then css,
\* followed by astro then typescript exactly when the environment is not
\* 'browser', each provider once; no later step adds, removes or reorders
\* providers.
C13_RegistryFixedAtInitialization ==
    [][/\ \A p \in InitializeParams :
            Initialize(p) =>
                plugins' = IF p.environment # "browser"
                           THEN <<"html", "css", "astro", "typescript">>
                           ELSE <<"html", "css">>
       /\ phase # "created" => plugins' = plugins
      ]_vars

\* C14: the initialize handler sets filterIncompleteCompletions to true unless
\* the client sent dontFilterIncompleteCompletions, and definitionLinkSupport
\* to whether the client declared definition link support; every other step
\* of the server leaves both as they are.  Checked under HandlerSpec.
C14_HostOptionsSetOnceAtInitialize ==
    [][/\ \A p \in InitializeParams :
            Initialize(p) =>
                /\ hostOptions'.filterIncompleteCompletions
                       = ~(p.hasOptions /\ p.dontFilter)
                /\ hostOptions'.definitionLinkSupport = p.linkSupport
       /\ phase # "created" => hostOptions' = hostOptions
      ]_vars

\* the client asked for unfiltered completions and declared link support; it
\* has since edited its document, pushed a configuration and sent a rename
\* request, and the options are as initialization left them
C14_Witness ==
    /\ phase = "ready"
    /\ hostOptions = [filterIncompleteCompletions |-> FALSE,
                      definitionLinkSupport |-> TRUE]
    /\ docs["u1"].version > 1
    /\ globalConfig = "custom"
    /\ request.kind = "rename"

----------------------------------------------------------------------------
(* Claims about the recompute owed to each document, checked under DiagSpec *)

\* a recompute of d at its current version is done, under way or scheduled
RecomputeOwedIsKept(d) ==
    \/ published[d] = docs[d].version
    \/ diag[d].computing = docs[d].version
    \/ diag[d].computing # 0 /\ diag[d].followUp
    \/ changeTimer.armed /\ changeTimer.arg.uri = d
    \/ updateAllTimer.armed

\* C15: coalescing is per document: an edited document always has the
\* recompute for its latest edit done, under way or still scheduled; an edit
\* of another document never takes the pending recompute away.
C15_EveryEditedDocumentIsRecomputed ==
    \A d \in Uris :
        (docs[d] # NoDoc /\ docs[d].version > 1) => RecomputeOwedIsKept(d)

\* C16: a document has one computation slot.  A trigger arriving while the
\* document is computing leaves the computation as it is and marks one
\* follow-up; a computation starts only for an idle document, or as the one
\* follow-up in the step that finishes the computation before it; a
\* computation finishing with no follow-up asked for leaves the document idle.
C16_SingleFlightWithOneFollowUp ==
    [][\A d \in Uris :
          /\ (diag[d].computing # 0 /\ docs'[d] # NoDoc /\ diag'[d] # diag[d]) =>
                 \/ /\ diag'[d].computing = diag[d].computing
                    /\ ~diag[d].followUp /\ diag'[d].followUp
                 \/ /\ out'.sent \in {NoMsg} \cup {[uri |-> d, version |-> diag[d].computing,
                                                   diagnostics |-> out'.sent.diagnostics]}
                    /\ diag'[d] = IF diag[d].followUp
                                  THEN [computing |-> docs[d].version, followUp |-> FALSE]
                                  ELSE Idle
          /\ (FireUpdateAll /\ d \in openedInClient /\ diag[d].computing # 0) =>
                 diag'[d] = [diag[d] EXCEPT !.followUp = TRUE]
          /\ (FireDocumentChange /\ changeTimer.arg = [uri |-> d, alive |-> TRUE]
                 /\ diag[d].computing # 0) =>
                 diag'[d] = [diag[d] EXCEPT !.followUp = TRUE]
          /\ diag[d].computing = 0 => ~diag[d].followUp
      ]_vars

\* a computation that had a follow-up asked for has just published, and the
\* follow-up, the only computation of the document, is under way
C16_Witness ==
    \E d \in Uris :
        /\ out.sent.uri = d
        /\ out.sent.version > 0
        /\ diag[d].computing = docs[d].version
        /\ ~diag[d].followUp

----------------------------------------------------------------------------
(* Claims about completion resolve, checked under RequestSpec *)

\* C17: a completionItem/resolve request whose item carries origin data is
\* dispatched to the plugin host's resolveCompletion with exactly that
\* document identifier; one whose item carries none makes no plugin host call
\* and starts no provider.
C17_ResolveRoutedByItemData ==
    request.kind = "completionResolve" =>
        IF request.data = "none"
        THEN call = NoCall /\ inflight = NoFlight
        ELSE call.method = "resolveCompletion" /\ call.uri = request.data

\* an item that came from u2 has been routed back to u2
C17_Witness ==
    /\ request.kind = "completionResolve"
    /\ request.data = "u2"
    /\ call = [method |-> "resolveCompletion", uri |-> "u2", token |-> "none"]

----------------------------------------------------------------------------
(* Claims about closed documents *)

\* C18: while a document is closed no computation is tracked for it, no live
\* debounced update is pending for it, and no step publishes a non-empty
\* diagnostic set for its uri.  Checked under DiagSpec.
C18_NothingPublishedForClosedDocument ==
    [][\A d \in Uris :
          docs'[d] = NoDoc =>
              /\ diag'[d] = Idle
              /\ ~(changeTimer'.armed /\ changeTimer'.arg = [uri |-> d, alive |-> TRUE])
              /\ out'.sent.uri = d => out'.sent.diagnostics = <<>>
      ]_vars

\* the debounced update scheduled by an edit of d fired after d was closed:
\* the call was made, nothing was started and nothing published
C18_Witness ==
    \E d \in Uris :
        /\ docs[d] = NoDoc
        /\ published[d] = 0
        /\ out.updates = 1
        /\ out.sent = NoMsg
        /\ \A e \in Uris : diag[e] = Idle /\ docs[e].version < 2

\* C19: the configuration cache holds no entry for a closed document, also
\* when re-reads started by a configuration change before the close complete
\* after it.  Checked under ConfigSpec.
C19_NoCachedConfigForClosedDocument ==
    \A d \in Uris : docs[d] = NoDoc => d \notin configCache

====
